---- MODULE Spec2Model ----
(***************************************************************************)
(* Model of public/replace-query-params.js: the heading rewriter           *)
(* replaceQueryParameters() and the triggers that invoke it (readyState    *)
(* branch, load listener, five setTimeout retries, MutationObserver).      *)
(*                                                                         *)
(* The document is a sequence of elements in document (pre-)order.  Each   *)
(* element has a tag, the class flag, its own leading text node and a      *)
(* parent (0 = document.body), so that textContent, which concatenates     *)
(* the text of all descendants, and the textContent setter, which removes  *)
(* all children, behave as in the DOM.                                     *)
(***************************************************************************)
EXTENDS Integers, Sequences, FiniteSets, TLC

\* ------------------------------------------------------------------ bounds
MaxElems == 3
MaxLive == 2

\* ------------------------------------------------------------------ state
VARIABLES
    doc,         \* the elements under document.body, in document order
    phase,       \* "pre": the script has not been evaluated; "run": it has
    readyState,  \* document.readyState
    body,        \* document.body exists
    moAvail,     \* typeof MutationObserver !== 'undefined'
    dclReg,      \* a DOMContentLoaded listener is registered
    loadReg,     \* a load listener is registered on window
    timer,       \* the five setTimeout retries: "unset", "armed" or "fired"
    poll,        \* the setTimeout that polls for document.body
    observing,   \* observer.observe(document.body, ...) has been called
    pending,     \* mutation records are queued for the observer
    fresh,       \* the elements inserted after the initial pass and since the
                 \* latest invocation (positions in doc)
    calls,       \* invocations of replaceQueryParameters per one-shot source
    last         \* the invocation of replaceQueryParameters made by the
                 \* latest step (src "none": that step made none): the
                 \* document before it and its fresh elements, the elements
                 \* after it (detached ones included), the count, the
                 \* console records, and whether it follows a completed
                 \* invocation with no step in between (again)

vars ==
    <<doc, phase, readyState, body, moAvail, dclReg, loadReg, timer, poll,
      observing, pending, fresh, calls, last>>

\* ------------------------------------------------------------ string data
\* Strings are sequences of characters, so that trim() and concatenation
\* are computed and not assumed.
QueryParameters ==
    <<"Q","u","e","r","y"," ","P","a","r","a","m","e","t","e","r","s">>

Parameters == <<"P","a","r","a","m","e","t","e","r","s">>

QueryPrefix == <<"Q","u","e","r","y"," ">>

ListSuffix == <<" ","L","i","s","t">>

\* The characters String.prototype.trim() strips that occur in the model.
WhiteSpace == {" ", "\t", "\n"}

\* ------------------------------------------------------------- DOM helpers
\* Parent value of body's children and of the roots of detached subtrees.
BodyParent == 0
Detached == -1

RECURSIVE TrimStart(_)
TrimStart(s) ==
    IF s # <<>> /\ Head(s) \in WhiteSpace THEN TrimStart(Tail(s)) ELSE s

RECURSIVE TrimEnd(_)
TrimEnd(s) ==
    IF s # <<>> /\ s[Len(s)] \in WhiteSpace
    THEN TrimEnd(SubSeq(s, 1, Len(s) - 1))
    ELSE s

\* Mutant of trim: trimStart().
trimStartOnly(s) == TrimStart(s)

\* String.prototype.trim
trim(s) == TrimEnd(TrimStart(s))

\* j is i or a descendant of i in the element table w.
RECURSIVE InSubtree(_, _, _)
InSubtree(w, i, j) ==
    IF j = i THEN TRUE
    ELSE IF j < 1 THEN FALSE
    ELSE InSubtree(w, i, w[j].parent)

\* The element is connected to the document (its root is body).
RECURSIVE Connected(_, _)
Connected(w, j) ==
    IF j = BodyParent THEN TRUE
    ELSE IF j = Detached THEN FALSE
    ELSE Connected(w, w[j].parent)

RECURSIVE ConcatFrom(_, _, _)
ConcatFrom(w, i, j) ==
    IF j > Len(w) THEN <<>>
    ELSE (IF InSubtree(w, i, j) THEN w[j].own ELSE <<>>) \o ConcatFrom(w, i, j + 1)

\* Node.textContent (getter): the text of the element and of its descendants,
\* in document order.
textContent(w, i) == ConcatFrom(w, i, i)

\* Node.textContent (setter): the children are removed and replaced by one
\* text node.
SetTextContent(w, i, s) ==
    [j \in 1..Len(w) |->
        IF j = i THEN [w[j] EXCEPT !.own = s]
        ELSE IF w[j].parent = i THEN [w[j] EXCEPT !.parent = Detached]
        ELSE w[j]]

\* Mutant of Matches: the selector 'h4'.
MatchesTagOnly(e) == e.tag = "h4"

\* The selector 'h4.api-section-heading-title'.
Matches(e) == e.tag = "h4" /\ e.cls

RECURSIVE SelectFrom(_, _)
SelectFrom(w, j) ==
    IF j > Len(w) THEN <<>>
    ELSE (IF Matches(w[j]) THEN <<j>> ELSE <<>>) \o SelectFrom(w, j + 1)

\* Mutant of querySelectorAll: document.querySelector(selector), the first
\* match alone.
querySelectorFirst(w) ==
    IF SelectFrom(w, 1) = <<>> THEN <<>> ELSE <<Head(SelectFrom(w, 1))>>

\* document.querySelectorAll(selector): a static list, in document order.
querySelectorAll(w) == SelectFrom(w, 1)

\* Mutant of IsTarget: textContent.trim().startsWith('Query Parameters').
IsTargetStartsWith(w, h) ==
    LET text == trim(textContent(w, h))
    IN  /\ Len(text) >= Len(QueryParameters)
        /\ SubSeq(text, 1, Len(QueryParameters)) = QueryParameters

\* The condition of the if statement in the forEach callback.
IsTarget(w, h) ==
    LET text == textContent(w, h)
    IN  /\ text # <<>>
        /\ trim(text) = QueryParameters

\* heading.textContent = 'Parameters'
AssignParameters(w, h) == SetTextContent(w, h, Parameters)

\* replaced++
Increment(n) == n + 1

\* let replaced = 0
InitialCount == 0

\* ------------------------------------------------- replaceQueryParameters
\* What the host does to one invocation: nothing, querySelectorAll throws,
\* or the assignment to the textContent of element k throws.
Failures(n) ==
    {[step |-> "none", k |-> 0], [step |-> "select", k |-> 0]}
        \cup {[step |-> "assign", k |-> k] : k \in 1..n}

\* Mutant of ForEach: the try statement is inside the callback, so a failed
\* assignment is caught there and the loop goes on with the next heading.
RECURSIVE ForEachCatchInside(_, _, _, _, _, _)
ForEachCatchInside(w, hs, k, replaced, mutated, f) ==
    IF k > Len(hs)
    THEN [work |-> w, replaced |-> replaced, mutated |-> mutated, threw |-> "none"]
    ELSE IF IsTarget(w, hs[k])
    THEN IF f.step = "assign" /\ hs[k] = f.k
         THEN [ForEachCatchInside(w, hs, k + 1, replaced, mutated, f)
                   EXCEPT !.threw = "assign"]
         ELSE ForEachCatchInside(AssignParameters(w, hs[k]), hs, k + 1,
                                 Increment(replaced), mutated \/ Connected(w, hs[k]), f)
    ELSE ForEachCatchInside(w, hs, k + 1, replaced, mutated, f)

\* headings.forEach(function(heading) {...}) from the k-th heading on.
\* mutated: a connected heading was written (a childList record for an
\* observer of body).
RECURSIVE ForEach(_, _, _, _, _, _)
ForEach(w, hs, k, replaced, mutated, f) ==
    IF k > Len(hs)
    THEN [work |-> w, replaced |-> replaced, mutated |-> mutated, threw |-> "none"]
    ELSE IF IsTarget(w, hs[k])
    THEN IF f.step = "assign" /\ hs[k] = f.k
         THEN [work |-> w, replaced |-> replaced, mutated |-> mutated,
               threw |-> "assign"]
         ELSE ForEach(AssignParameters(w, hs[k]), hs, k + 1, Increment(replaced),
                      mutated \/ Connected(w, hs[k]), f)
    ELSE ForEach(w, hs, k + 1, replaced, mutated, f)

\* Mutant of TryBlock: the counter is declared outside the function and keeps
\* its value from one invocation to the next.
TryBlockCarry(d, f) ==
    IF f.step = "select"
    THEN [work |-> d, replaced |-> last.replaced, mutated |-> FALSE, threw |-> "select"]
    ELSE ForEach(d, querySelectorAll(d), 1, last.replaced, FALSE, f)

\* Mutant of TryBlock: the catch block sets a flag and the invocation after a
\* failed one returns at once, having looked at nothing.
TryBlockLatch(d, f) ==
    IF last.threw # "none" /\ f.step = "none"
    THEN [work |-> d, replaced |-> InitialCount, mutated |-> FALSE, threw |-> "none"]
    ELSE IF f.step = "select"
    THEN [work |-> d, replaced |-> InitialCount, mutated |-> FALSE, threw |-> "select"]
    ELSE ForEach(d, querySelectorAll(d), 1, InitialCount, FALSE, f)

\* The body of the try block.
TryBlock(d, f) ==
    IF f.step = "select"
    THEN [work |-> d, replaced |-> InitialCount, mutated |-> FALSE, threw |-> "select"]
    ELSE ForEach(d, querySelectorAll(d), 1, InitialCount, FALSE, f)

\* Mutant of TryCatch: no catch block, the exception leaves the function.
TryCatchMissing(r) ==
    [log |-> IF r.threw = "none" THEN <<r.replaced>> ELSE <<>>,
     error |-> 0,
     escaped |-> r.threw # "none"]

\* Mutant of TryCatch: console.log is moved after the try statement, so the
\* count is reported after a caught exception too.
TryCatchLogAfter(r) ==
    [log |-> <<r.replaced>>,
     error |-> IF r.threw = "none" THEN 0 ELSE 1,
     escaped |-> FALSE]

\* try { ... console.log(...) } catch (e) { console.error(...) }:
\* the records written to the console and whether the exception leaves the
\* function.
TryCatch(r) ==
    [log |-> IF r.threw = "none" THEN <<r.replaced>> ELSE <<>>,
     error |-> IF r.threw = "none" THEN 0 ELSE 1,
     escaped |-> FALSE]

\* The elements still connected to the document, renumbered.
NewIndex(w, j) == Cardinality({k \in 1..j : Connected(w, k)})

Compact(w) ==
    IF \A j \in 1..Len(w) : Connected(w, j) THEN w
    ELSE
    [n \in 1..NewIndex(w, Len(w)) |->
        LET j == CHOOSE x \in 1..Len(w) : Connected(w, x) /\ NewIndex(w, x) = n
        IN  [w[j] EXCEPT !.parent = IF @ = BodyParent THEN BodyParent
                                     ELSE NewIndex(w, @)]]

\* The failures that can happen in an invocation on document d.
HostFailures(d) == Failures(Len(d))

\* One invocation of replaceQueryParameters() on document d.
replaceQueryParameters(d, f) ==
    LET r == TryBlock(d, f)
        c == TryCatch(r)
    IN  [before |-> d, work |-> r.work, replaced |-> r.replaced,
         mutated |-> r.mutated, threw |-> r.threw,
         log |-> c.log, error |-> c.error, escaped |-> c.escaped]

\* ---------------------------------------------------------------- triggers
\* The delays of the five retries, in the order the script sets them.
TimerDelays == <<100, 300, 500, 1000, 2000>>

TimerSrc == <<"timeout100", "timeout300", "timeout500", "timeout1000", "timeout2000">>

Timers == DOMAIN TimerDelays

\* The delay of the poll for document.body.
PollDelay == 100

\* The sources that invoke the function once.
Sources ==
    {"immediate", "DOMContentLoaded", "load"}
        \cup {TimerSrc[i] : i \in Timers}

\* ----------------------------------------------------------- the documents
Elem(tag, cls, own) ==
    [tag |-> tag, cls |-> cls, own |-> own, parent |-> BodyParent]

\* Elements the documents are built from.
Templates ==
    { Elem("h4", TRUE, QueryParameters),
      Elem("h4", TRUE, QueryParameters \o ListSuffix),
      Elem("h4", TRUE, QueryPrefix),
      Elem("h4", TRUE, <<" ">>),
      Elem("h4", FALSE, QueryParameters),
      Elem("h3", TRUE, QueryParameters) }

\* Elements inserted while the page runs.
LiveTemplates ==
    { Elem("h4", TRUE, QueryParameters),
      Elem("h4", TRUE, QueryPrefix) }

\* The elements on the path from the last element up to body: the places
\* where an element appended in document order can be attached.
RECURSIVE RightPath(_, _)
RightPath(d, j) ==
    IF j = BodyParent THEN {BodyParent} ELSE {j} \cup RightPath(d, d[j].parent)

AppendElem(d, e, p) == Append(d, [e EXCEPT !.parent = p])

\* The documents of at most n elements built from the templates T.
RECURSIVE Docs(_, _)
Docs(T, n) ==
    IF n = 0 THEN {<<>>}
    ELSE LET D == Docs(T, n - 1)
         IN  D \cup { AppendElem(d, e, p) :
                        d \in {x \in D : Len(x) = n - 1},
                        e \in T,
                        p \in 0..(n - 1) }

WellFormed(d) ==
    \A j \in 1..Len(d) : d[j].parent \in RightPath(d, j - 1)

NoCall ==
    [src |-> "none", again |-> FALSE, before |-> <<>>, fresh |-> {}, work |-> <<>>,
     replaced |-> 0, mutated |-> FALSE, threw |-> "none",
     log |-> <<>>, error |-> 0, escaped |-> FALSE]

\* ---------------------------------------------------------------- actions
\* One invocation of replaceQueryParameters() by trigger src, in which the
\* host does f.  observed: the observer is attached while the function runs,
\* so that its writes queue mutation records.
Pass(src, f, observed) ==
    LET r == replaceQueryParameters(doc, f)
    IN  /\ r.threw = f.step
        /\ doc' = Compact(r.work)
        /\ fresh' = {}
        /\ last' = [src |-> src, again |-> (last.src # "none" /\ last.threw = "none"),
                    before |-> r.before, fresh |-> fresh, work |-> r.work,
                    replaced |-> r.replaced, mutated |-> r.mutated,
                    threw |-> r.threw, log |-> r.log, error |-> r.error,
                    escaped |-> r.escaped]
        /\ calls' = IF src \in Sources THEN [calls EXCEPT ![src] = @ + 1] ELSE calls
        /\ pending' = (observed /\ r.mutated)

\* Mutant of IsLoading: document.readyState !== 'complete'.
IsNotComplete(rs) == rs # "complete"

\* document.readyState === 'loading'
IsLoading(rs) == rs = "loading"

\* The five setTimeout(replaceQueryParameters, delay) calls.
ArmTimers == [i \in Timers |-> "armed"]

\* Mutant of Discard: setInterval instead of setTimeout, the timer stays
\* armed.
KeepArmed(t, i) == t

\* A timeout is one-shot: once run it is discarded.
Discard(t, i) == [t EXCEPT ![i] = "fired"]

\* The evaluation of the script (the body of the IIFE).
Eval ==
    /\ phase = "pre"
    /\ phase' = "run"
    /\ IF IsLoading(readyState)
       THEN /\ dclReg' = TRUE
            /\ last' = NoCall /\ UNCHANGED <<doc, fresh, calls, pending>>
       ELSE /\ dclReg' = FALSE
            /\ \E f \in HostFailures(doc) : Pass("immediate", f, FALSE)
    /\ loadReg' = TRUE
    /\ timer' = ArmTimers
    /\ IF moAvail
       THEN IF body
            THEN observing' = TRUE /\ poll' = "unset"
            ELSE observing' = FALSE /\ poll' = "armed"
       ELSE observing' = FALSE /\ poll' = "unset"
    /\ UNCHANGED <<readyState, body, moAvail>>

\* The DOMContentLoaded event: the listener of line 25 runs.
DOMContentLoaded ==
    /\ phase = "run"
    /\ readyState = "loading"
    /\ body
    /\ ~pending
    /\ readyState' = "interactive"
    /\ IF dclReg
       THEN \E f \in HostFailures(doc) : Pass("DOMContentLoaded", f, observing)
       ELSE last' = NoCall /\ UNCHANGED <<doc, fresh, calls, pending>>
    /\ UNCHANGED <<phase, body, moAvail, dclReg, loadReg, timer, poll, observing>>

\* Mutant of Load: the load listener is added to document, where the load
\* event of window is never dispatched, so the event runs nothing.
LoadUnheard ==
    /\ phase = "run"
    /\ readyState = "interactive"
    /\ ~pending
    /\ readyState' = "complete"
    /\ last' = NoCall
    /\ UNCHANGED <<doc, fresh, calls, pending>>
    /\ UNCHANGED <<phase, body, moAvail, dclReg, loadReg, timer, poll, observing>>

\* The load event of window: the listener of line 30 runs.
Load ==
    /\ phase = "run"
    /\ readyState = "interactive"
    /\ ~pending
    /\ readyState' = "complete"
    /\ IF loadReg
       THEN \E f \in HostFailures(doc) : Pass("load", f, observing)
       ELSE last' = NoCall /\ UNCHANGED <<doc, fresh, calls, pending>>
    /\ UNCHANGED <<phase, body, moAvail, dclReg, loadReg, timer, poll, observing>>

\* The i-th retry runs.  Timeouts set in one task run in the order of their
\* delays; the poll for body (100 ms, set after the first retry) runs between
\* the first and the second retry.
Timeout(i) ==
    /\ timer[i] = "armed"
    /\ \A j \in Timers : TimerDelays[j] < TimerDelays[i] => timer[j] = "fired"
    /\ PollDelay < TimerDelays[i] => poll # "armed"
    /\ ~pending
    /\ timer' = Discard(timer, i)
    /\ \E f \in HostFailures(doc) : Pass(TimerSrc[i], f, observing)
    /\ UNCHANGED <<phase, readyState, body, moAvail, dclReg, loadReg, poll, observing>>

\* Mutant of PollBody: the poll observes document.documentElement when body
\* is still absent, so the observer is attached in either case.
PollBodyAnyRoot ==
    /\ poll = "armed"
    /\ \A j \in Timers : TimerDelays[j] <= PollDelay => timer[j] = "fired"
    /\ ~pending
    /\ poll' = "fired"
    /\ observing' = TRUE
    /\ last' = NoCall
    /\ UNCHANGED <<doc, phase, readyState, body, moAvail, dclReg, loadReg, timer,
                   pending, fresh, calls>>

\* The poll for document.body, 100 ms after evaluation.
PollBody ==
    /\ poll = "armed"
    /\ \A j \in Timers : TimerDelays[j] <= PollDelay => timer[j] = "fired"
    /\ ~pending
    /\ poll' = "fired"
    /\ observing' = body
    /\ last' = NoCall
    /\ UNCHANGED <<doc, phase, readyState, body, moAvail, dclReg, loadReg, timer,
                   pending, fresh, calls>>

\* Mutant of ObserverCallback: the callback looks for attribute records only
\* and returns without calling replaceQueryParameters().
ObserverCallbackIdle ==
    /\ observing
    /\ pending
    /\ pending' = FALSE
    /\ last' = NoCall
    /\ UNCHANGED <<doc, fresh, calls>>
    /\ UNCHANGED <<phase, readyState, body, moAvail, dclReg, loadReg, timer, poll,
                   observing>>

\* The MutationObserver callback, run for the queued records.
ObserverCallback ==
    /\ observing
    /\ pending
    /\ \E f \in HostFailures(doc) : Pass("observer", f, TRUE)
    /\ UNCHANGED <<phase, readyState, body, moAvail, dclReg, loadReg, timer, poll,
                   observing>>

\* The parser creates document.body.
BodyCreated ==
    /\ phase = "run"
    /\ ~body
    /\ body' = TRUE
    /\ last' = NoCall
    /\ UNCHANGED <<doc, phase, readyState, moAvail, dclReg, loadReg, timer, poll,
                   observing, pending, fresh, calls>>

\* The initial pass (immediate or on DOMContentLoaded) has run.
InitialDone == calls["immediate"] + calls["DOMContentLoaded"] > 0

\* Another actor (the parser, a framework) appends an element under body.
Insert ==
    /\ phase = "run"
    /\ body
    /\ ~pending
    /\ Len(doc) < MaxLive
    /\ \E e \in LiveTemplates, p \in RightPath(doc, Len(doc)) :
          doc' = AppendElem(doc, e, p)
    /\ fresh' = IF InitialDone THEN fresh \cup {Len(doc) + 1} ELSE fresh
    /\ pending' = observing
    /\ last' = NoCall
    /\ UNCHANGED <<phase, readyState, body, moAvail, dclReg, loadReg, timer, poll,
                   observing, calls>>

\* A direct call of replaceQueryParameters().
DirectCall ==
    /\ \E f \in HostFailures(doc) : Pass("call", f, FALSE)
    /\ UNCHANGED <<phase, readyState, body, moAvail, dclReg, loadReg, timer, poll,
                   observing>>

\* ---------------------------------------------------------- specifications
\* The page: the script is evaluated in some state of the document and the
\* triggers fire.  The parser creates body before it ends (DOMContentLoaded),
\* and the script reads document.body only where MutationObserver is
\* defined, so body is absent only while loading and with MutationObserver.
Init ==
    /\ phase = "pre"
    /\ readyState \in {"loading", "interactive", "complete"}
    /\ body \in BOOLEAN
    /\ moAvail \in BOOLEAN
    /\ ~body => (readyState = "loading" /\ moAvail)
    /\ doc \in {d \in Docs(LiveTemplates, MaxLive - 1) : WellFormed(d) /\ (~body => d = <<>>)}
    /\ dclReg = FALSE
    /\ loadReg = FALSE
    /\ timer = [i \in Timers |-> "unset"]
    /\ poll = "unset"
    /\ observing = FALSE
    /\ pending = FALSE
    /\ fresh = {}
    /\ calls = [s \in Sources |-> 0]
    /\ last = NoCall

Next ==
    \/ Eval
    \/ DOMContentLoaded
    \/ Load
    \/ \E i \in Timers : Timeout(i)
    \/ PollBody
    \/ ObserverCallback
    \/ BodyCreated
    \/ Insert

Spec == Init /\ [][Next]_vars

\* The function alone: it is called again and again on every document of at
\* most MaxElems elements.
PassInit ==
    /\ phase = "run"
    /\ readyState = "complete"
    /\ body = TRUE
    /\ moAvail = FALSE
    /\ doc \in {d \in Docs(Templates, MaxElems) : WellFormed(d)}
    /\ dclReg = FALSE
    /\ loadReg = FALSE
    /\ timer = [i \in Timers |-> "unset"]
    /\ poll = "unset"
    /\ observing = FALSE
    /\ pending = FALSE
    /\ fresh = {}
    /\ calls = [s \in Sources |-> 0]
    /\ last = NoCall

PassNext == DirectCall

PassSpec == PassInit /\ [][PassNext]_vars

\* The page left alone: no other actor inserts anything and the host makes no
\* invocation fail; the document is whatever the page holds (headings may be
\* nested) when the script is evaluated.
QuietInit ==
    /\ phase = "pre"
    /\ readyState \in {"loading", "interactive", "complete"}
    /\ body \in BOOLEAN
    /\ moAvail \in BOOLEAN
    /\ ~body => (readyState = "loading" /\ moAvail)
    /\ doc \in {d \in Docs(LiveTemplates, MaxLive) : WellFormed(d) /\ (~body => d = <<>>)}
    /\ dclReg = FALSE
    /\ loadReg = FALSE
    /\ timer = [i \in Timers |-> "unset"]
    /\ poll = "unset"
    /\ observing = FALSE
    /\ pending = FALSE
    /\ fresh = {}
    /\ calls = [s \in Sources |-> 0]
    /\ last = NoCall

\* The host makes the invocation of the step, if any, complete.
NoFailure == last'.threw = "none"

QuietNext ==
    \/ Eval /\ NoFailure
    \/ DOMContentLoaded /\ NoFailure
    \/ Load /\ NoFailure
    \/ \E i \in Timers : Timeout(i) /\ NoFailure
    \/ PollBody
    \/ ObserverCallback /\ NoFailure
    \/ BodyCreated

QuietSpec == QuietInit /\ [][QuietNext]_vars

\* ------------------------------------------------------------- properties
\* The latest step invoked replaceQueryParameters / and no exception was
\* raised in it.
Ran == last.src # "none"

Completed == Ran /\ last.threw = "none"

\* t is s with white space before and after it (s has none at its ends).
TrimmedIs(t, s) ==
    \E a \in 0..(Len(t) - Len(s)) :
        /\ SubSeq(t, a + 1, a + Len(s)) = s
        /\ \A k \in 1..a : t[k] \in WhiteSpace
        /\ \A k \in (a + Len(s) + 1)..Len(t) : t[k] \in WhiteSpace

\* The elements of the document the latest invocation started on.
Before == 1..Len(last.before)

\* Element i matched the selector and read "Query Parameters", trimmed, when
\* the latest invocation started.
WasTarget(i) ==
    /\ last.before[i].tag = "h4"
    /\ last.before[i].cls
    /\ TrimmedIs(textContent(last.before, i), QueryParameters)

\* Element i of the current document matches the selector and reads
\* "Query Parameters", trimmed.
ReadsQueryParameters(i) ==
    /\ doc[i].tag = "h4"
    /\ doc[i].cls
    /\ TrimmedIs(textContent(doc, i), QueryParameters)

\* The latest invocation assigned to element i: its child nodes changed.
Written(i) ==
    \/ last.work[i].own # last.before[i].own
    \/ \E j \in Before : last.before[j].parent = i /\ last.work[j].parent # i

\* C1 (as claimed): after an invocation that completes without an exception,
\* no element matching the selector reads "Query Parameters" (trimmed), and
\* every element that did reads exactly "Parameters".
C1_NoneLeft ==
    Completed =>
        /\ \A i \in 1..Len(doc) : ~ReadsQueryParameters(i)
        /\ \A i \in Before : WasTarget(i) => textContent(last.work, i) = Parameters

\* Element i has a descendant that matched the selector and read
\* "Query Parameters" when the latest invocation started.
HadTargetInside(i) ==
    \E j \in Before : j # i /\ InSubtree(last.before, i, j) /\ WasTarget(j)

\* The only writes of an invocation set the text of a heading that matched
\* the target phrase to "Parameters".
OnlyTargetsWritten ==
    \A i \in Before :
        Written(i) =>
            /\ WasTarget(i)
            /\ last.work[i].own = Parameters
            /\ \A j \in Before : last.work[j].parent # i

\* C2 (as claimed): an invocation leaves unchanged the text of every heading
\* that did not read "Query Parameters" (trimmed) when it started, and its
\* only writes set "Parameters" on headings that did.
C2_OthersUnchanged ==
    Ran =>
        /\ \A i \in Before :
              (Matches(last.before[i]) /\ ~WasTarget(i)) =>
                  textContent(last.work, i) = textContent(last.before, i)
        /\ OnlyTargetsWritten

\* C2 (amended): an invocation leaves unchanged the text of every heading
\* that did not read "Query Parameters" (trimmed) when it started and that
\* contains no heading that did, and its only writes set "Parameters" on
\* headings that did.
C2_OthersUnchangedAmended ==
    Ran =>
        /\ \A i \in Before :
              (Matches(last.before[i]) /\ ~WasTarget(i) /\ ~HadTargetInside(i)) =>
                  textContent(last.work, i) = textContent(last.before, i)
        /\ OnlyTargetsWritten

\* C2 witness: an invocation rewrote one heading and left beside it a heading
\* that contains the phrase without being equal to it.
C2_Witness ==
    /\ Completed
    /\ \E i, j \in Before :
          /\ WasTarget(i)
          /\ textContent(last.work, i) = Parameters
          /\ Matches(last.before[j])
          /\ textContent(last.before, j) = QueryParameters \o ListSuffix
          /\ textContent(last.work, j) = QueryParameters \o ListSuffix

\* C3 (as claimed): an invocation that follows a completed invocation, with
\* nothing in between, changes nothing and reports a count of zero.
C3_Idempotent ==
    (Completed /\ last.again) =>
        /\ last.work = last.before
        /\ doc = last.before
        /\ last.log = <<0>>

\* C4: a heading matching the selector is written if and only if its text,
\* trimmed, is "Query Parameters" in full.
C4_ExactMatch ==
    Completed =>
        \A i \in Before :
            Matches(last.before[i]) => (Written(i) <=> WasTarget(i))

\* C4 witness: in one invocation a heading reading "Query Parameters " (with
\* the trailing space) was rewritten and a heading reading
\* "Query Parameters List" was not.
C4_Witness ==
    /\ Completed
    /\ \E i, j \in Before :
          /\ Matches(last.before[i])
          /\ textContent(last.before, i) = QueryParameters \o <<" ">>
          /\ Written(i)
          /\ textContent(last.work, i) = Parameters
          /\ Matches(last.before[j])
          /\ textContent(last.before, j) = QueryParameters \o ListSuffix
          /\ ~Written(j)

C6_SelectionFailureIsolated ==
    (Ran /\ last.threw = "select") =>
        /\ last.error = 1
        /\ last.log = <<>>
        /\ ~last.escaped
        /\ last.work = last.before
        /\ doc = last.before

\* C6 witness: querySelectorAll threw on a document that holds a heading
\* reading "Query Parameters".
C6_Witness ==
    /\ last.threw = "select"
    /\ last.error = 1
    /\ \E i \in Before : WasTarget(i) /\ textContent(doc, i) = QueryParameters

\* The headings that matched the selector and read "Query Parameters",
\* trimmed, when the latest invocation started.
TargetsBefore == {i \in Before : WasTarget(i)}

\* C7: a completed invocation reports the number of headings that matched
\* the selector and read "Query Parameters" (trimmed) when it started,
\* whatever the invocations before it reported.
C7_CountReported ==
    Completed => last.log = <<Cardinality(TargetsBefore)>>

\* C7 witness: three headings, the first and the third reading
\* "Query Parameters" and the second not; 2 is reported and the texts are
\* "Parameters", the second heading's own text, "Parameters".
C7_Witness ==
    /\ Completed
    /\ Len(last.before) = 3
    /\ \A i \in Before : Matches(last.before[i]) /\ last.before[i].parent = BodyParent
    /\ last.before[1].own = QueryParameters
    /\ last.before[2].own = QueryParameters \o ListSuffix
    /\ last.before[3].own = QueryParameters
    /\ last.log = <<2>>
    /\ doc[1].own = Parameters
    /\ doc[2].own = QueryParameters \o ListSuffix
    /\ doc[3].own = Parameters

\* The sources of the five retries.
TimerSources == {TimerSrc[i] : i \in Timers}

\* C8: when the observer callback or a retry runs and completes, every
\* heading that was inserted after the initial pass, matches the selector and
\* reads "Query Parameters" (trimmed) reads exactly "Parameters" afterwards.
C8_LateInsertionRewritten ==
    (Completed /\ last.src \in {"observer"} \cup TimerSources) =>
        \A i \in last.fresh :
            WasTarget(i) => textContent(last.work, i) = Parameters

\* C8 witness: the script ran its immediate pass, a heading reading
\* "Query Parameters" was inserted afterwards, and the observer callback
\* rewrote it.
C8_Witness ==
    /\ Completed
    /\ last.src = "observer"
    /\ calls["immediate"] = 1
    /\ \E i \in last.fresh :
          /\ Matches(last.before[i])
          /\ last.before[i].own = QueryParameters
          /\ textContent(last.work, i) = Parameters
          /\ \E j \in 1..Len(doc) : doc[j].own = Parameters

\* C9: at evaluation, if readyState is 'loading' no pass runs and the pass is
\* registered for DOMContentLoaded, whose event then runs it; otherwise one
\* pass runs at once and no DOMContentLoaded listener is registered.  Exactly
\* one of the two holds of an evaluated script.
C9_InitialTrigger ==
    [][ /\ (phase = "pre" /\ phase' = "run") =>
              IF readyState = "loading"
              THEN /\ last'.src = "none"
                   /\ doc' = doc
                   /\ calls' = calls
                   /\ dclReg'
              ELSE /\ last'.src = "immediate"
                   /\ calls'["immediate"] = 1
                   /\ ~dclReg'
        /\ (phase = "run" /\ readyState = "loading" /\ readyState' # "loading") =>
              /\ dclReg
              /\ last'.src = "DOMContentLoaded"
              /\ calls'["DOMContentLoaded"] = 1
        /\ phase' = "run" =>
              /\ dclReg' <=> calls'["immediate"] = 0
              /\ calls'["immediate"] + calls'["DOMContentLoaded"] <= 1
              /\ calls'["DOMContentLoaded"] = 1 => dclReg'
      ]_vars

\* C9 witness: the script was evaluated while loading, ran no pass then, and
\* the DOMContentLoaded event has just run the pass.
C9_Witness ==
    /\ last.src = "DOMContentLoaded"
    /\ dclReg
    /\ calls["immediate"] = 0
    /\ calls["DOMContentLoaded"] = 1

\* C10: the evaluation arms five timers, at 100, 300, 500, 1000 and 2000 ms,
\* whatever readyState and MutationObserver are; each timer runs the pass
\* once, when it goes from armed to fired, and a fired timer stays fired.
C10_OneShotTimers ==
    [][ /\ TimerDelays = <<100, 300, 500, 1000, 2000>>
        /\ (phase = "pre" /\ phase' = "run") =>
              \A i \in Timers : timer'[i] = "armed"
        /\ \A i \in Timers :
              /\ timer[i] = "fired" => timer'[i] = "fired"
              /\ timer[i] = "unset" => timer'[i] \in {"unset", "armed"}
              /\ (timer[i] = "armed" /\ timer'[i] = "fired") =>
                    /\ last'.src = TimerSrc[i]
                    /\ calls'[TimerSrc[i]] = calls[TimerSrc[i]] + 1
              /\ last'.src = TimerSrc[i] => (timer[i] = "armed" /\ timer'[i] = "fired")
              /\ calls'[TimerSrc[i]] = (IF timer'[i] = "fired" THEN 1 ELSE 0)
      ]_vars

\* C10 witness: the five timers have fired and each has run the pass once,
\* in a page without MutationObserver that was evaluated while loading.
C10_Witness ==
    /\ ~moAvail
    /\ dclReg
    /\ \A i \in Timers : timer[i] = "fired" /\ calls[TimerSrc[i]] = 1

\* C11: the evaluation registers the pass for the load event of window
\* whatever readyState is, the registration is never removed, and the load
\* event (readyState goes from interactive to complete) runs the pass once
\* more, after the initial pass; nothing else runs it for that source.
C11_LoadRunsPass ==
    [][ /\ (phase = "pre" /\ phase' = "run") => loadReg'
        /\ loadReg => loadReg'
        /\ (phase = "run" /\ readyState = "interactive" /\ readyState' = "complete") =>
              /\ loadReg
              /\ calls["immediate"] + calls["DOMContentLoaded"] = 1
              /\ last'.src = "load"
              /\ calls'["load"] = calls["load"] + 1
        /\ last'.src = "load" =>
              (readyState = "interactive" /\ readyState' = "complete")
        /\ calls'["load"] <= 1
      ]_vars

\* C11 witness: the script was evaluated while loading, in a page without
\* MutationObserver; a heading inserted after the DOMContentLoaded pass has
\* just been rewritten by the pass the load event ran.
C11_Witness ==
    /\ last.src = "load"
    /\ Completed
    /\ ~moAvail
    /\ loadReg
    /\ calls["DOMContentLoaded"] = 1
    /\ calls["load"] = 1
    /\ readyState = "complete"
    /\ \E i \in last.fresh :
          WasTarget(i) /\ textContent(last.work, i) = Parameters

\* The step is the evaluation of the script.
IsEvalStep == phase = "pre" /\ phase' = "run"

\* The step is the poll for document.body.
IsPollStep == poll = "armed" /\ poll' # "armed"

\* With MutationObserver, the evaluation attaches the observer if body
\* exists and sets the poll otherwise; without it, neither.
C12_AtEvaluation ==
    IsEvalStep =>
        /\ observing' <=> (moAvail /\ body)
        /\ poll' = "armed" <=> (moAvail /\ ~body)

\* The poll runs once, 100 ms after the evaluation: after the 100 ms retry
\* and before the 300 ms one.
C12_PollsOnce ==
    /\ IsPollStep =>
          /\ poll' = "fired"
          /\ timer = timer'
          /\ \A i \in Timers :
                timer[i] = (IF TimerDelays[i] <= 100 THEN "fired" ELSE "armed")
    /\ poll = "fired" => poll' = "fired"
    /\ poll' = "armed" => (poll = "armed" \/ IsEvalStep)

\* An attached observer stays attached, and it is attached only by the
\* evaluation or the poll, to an existing body.
C12_StaysAttached ==
    /\ observing => observing'
    /\ (observing' /\ ~observing) =>
          (moAvail /\ body /\ (IsEvalStep \/ IsPollStep))

\* While the observer is attached, a step that changes the child lists
\* under body (an insertion by another actor, or a pass that wrote a
\* connected heading) queues the callback; the callback is the next thing
\* that runs, it runs the pass, and nothing else runs the pass for it.
C12_MutationRerunsPass ==
    /\ (observing /\ doc' # doc) => pending'
    /\ pending => (observing /\ last'.src = "observer")
    /\ last'.src = "observer" => (observing /\ pending)
    /\ pending' => observing'

\* C12 (as claimed): with MutationObserver the observer is attached, at the
\* evaluation if body exists and otherwise by the poll 100 ms later, and
\* from then on every child-list mutation under body re-runs the pass.
C12_ObserverAttached ==
    [][ /\ C12_AtEvaluation
        /\ C12_PollsOnce
        /\ IsPollStep => observing'
        /\ C12_StaysAttached
        /\ C12_MutationRerunsPass
      ]_vars

\* C12 (amended): as claimed, except that the poll attaches the observer
\* only if body exists when it runs; if it does not, no observer is ever
\* attached.
C12_ObserverAttachedIfBody ==
    [][ /\ C12_AtEvaluation
        /\ C12_PollsOnce
        /\ IsPollStep => (observing' <=> body)
        /\ (poll = "fired" /\ ~observing) => ~observing'
        /\ C12_StaysAttached
        /\ C12_MutationRerunsPass
      ]_vars

\* C12 witness: body did not exist at the evaluation, the poll found it and
\* attached the observer, and a heading inserted afterwards has just been
\* rewritten by the pass the observer callback ran.
C12_Witness ==
    /\ last.src = "observer"
    /\ Completed
    /\ moAvail
    /\ poll = "fired"
    /\ observing
    /\ \E i \in Before :
          WasTarget(i) /\ textContent(last.work, i) = Parameters

\* A pass has run since the script was evaluated.
SomePassRan == \E s \in Sources : calls[s] > 0

\* C13 (as claimed): in a page no other actor modifies, the document after
\* the first pass is the final one: whichever trigger runs the pass next,
\* and however many do, the document stays as the first pass left it.
C13_SinglePassIsFinal ==
    [][ (SomePassRan /\ last'.src # "none") => doc' = doc ]_vars

\* C14 (as claimed): the observer callback that runs because of the writes
\* of the pass before it replaces nothing, writes nothing and leaves no
\* callback queued.
C14_FollowUpReplacesNothing ==
    (last.src = "observer" /\ last.again /\ Completed) =>
        /\ last.replaced = 0
        /\ ~last.mutated
        /\ ~pending

\* The step runs the pass and the pass catches an exception.
IsFailedPassStep == last'.src # "none" /\ last'.threw # "none"

\* The step runs the pass, right after a pass that caught an exception.
IsRetryStep == last.src # "none" /\ last.threw # "none" /\ last'.src # "none"

\* C15: a pass that catches an exception leaves every armed timer armed
\* (but the one that ran it), the load and DOMContentLoaded registrations,
\* the poll and the observer as a completed pass would; and the pass the
\* next trigger runs starts afresh on the document as it is then: if it
\* completes, every heading that matched and read "Query Parameters" when it
\* started reads "Parameters", and it reports their number.
C15_FailureNotFatal ==
    [][ /\ (IsFailedPassStep /\ ~IsEvalStep) =>
              /\ \A i \in Timers :
                    timer'[i] = "armed" <=> (timer[i] = "armed" /\ last'.src # TimerSrc[i])
              /\ observing' = observing
              /\ loadReg' = loadReg
              /\ dclReg' = dclReg
              /\ poll' = poll
        /\ (IsFailedPassStep /\ IsEvalStep) =>
              /\ \A i \in Timers : timer'[i] = "armed"
              /\ loadReg'
              /\ observing' <=> (moAvail /\ body)
        /\ IsRetryStep =>
              /\ last'.before = doc
              /\ last'.threw = "none" =>
                    /\ \A i \in 1..Len(doc) :
                          (/\ doc[i].tag = "h4"
                           /\ doc[i].cls
                           /\ TrimmedIs(textContent(doc, i), QueryParameters))
                              => textContent(last'.work, i) = Parameters
                    /\ last'.log = <<Cardinality({i \in 1..Len(doc) :
                                          /\ doc[i].tag = "h4"
                                          /\ doc[i].cls
                                          /\ TrimmedIs(textContent(doc, i),
                                                       QueryParameters)})>>
      ]_vars

\* C15 witness: the 100 ms retry has just failed at the assignment to a
\* heading that still reads "Query Parameters"; the four later timers are
\* armed, the load listener is registered and the observer is attached.
C15_Witness ==
    /\ last.src = "timeout100"
    /\ last.threw = "assign"
    /\ last.error = 1
    /\ \A i \in Timers : timer[i] = (IF i = 1 THEN "fired" ELSE "armed")
    /\ loadReg
    /\ readyState = "interactive"
    /\ observing
    /\ \E i \in 1..Len(doc) : ReadsQueryParameters(i)

\* C16: an invocation writes exactly one record: if it completes, one
\* console.log record carrying the count and no console.error record; if it
\* catches an exception (from querySelectorAll or from an assignment), one
\* console.error record and no console.log record.
C16_OneRecord ==
    Ran =>
        /\ Len(last.log) + last.error = 1
        /\ last.threw = "none" => (last.log = <<last.replaced>> /\ last.error = 0)
        /\ last.threw \in {"select", "assign"} => (last.log = <<>> /\ last.error = 1)
        /\ last.threw \in {"none", "select", "assign"}

\* C16 witness: an invocation on three headings reading "Query Parameters"
\* rewrote two, failed at the third and wrote one error record and no count.
C16_Witness ==
    /\ Ran
    /\ last.threw = "assign"
    /\ last.replaced = 2
    /\ Len(last.before) = 3
    /\ last.log = <<>>
    /\ last.error = 1

\* C17: when the assignment to a heading k throws, the headings before k
\* that matched and read "Query Parameters" read "Parameters", in the pass
\* and in the document it leaves; k and the headings after it are not
\* written; the counter holds the number rewritten; no count is logged and
\* one error record is written.
C17_PartialEffect ==
    (Ran /\ last.threw = "assign") =>
        /\ \E k \in Before :
              /\ WasTarget(k)
              /\ \A i \in Before : (i < k /\ WasTarget(i)) =>
                    /\ textContent(last.work, i) = Parameters
                    /\ Connected(last.work, i) =>
                          doc[NewIndex(last.work, i)].own = Parameters
              /\ \A i \in Before : i >= k => ~Written(i)
              /\ last.replaced = Cardinality({i \in Before : i < k /\ WasTarget(i)})
        /\ last.log = <<>>
        /\ last.error = 1

\* C17 witness: three headings reading "Query Parameters", the assignment
\* to the second throws: the first reads "Parameters", the second and the
\* third still read "Query Parameters", one error record and no count.
C17_Witness ==
    /\ Ran
    /\ last.threw = "assign"
    /\ Len(last.before) = 3
    /\ \A i \in Before : WasTarget(i) /\ last.before[i].parent = BodyParent
    /\ Len(doc) = 3
    /\ doc[1].own = Parameters
    /\ doc[2].own = QueryParameters
    /\ doc[3].own = QueryParameters
    /\ last.replaced = 1
    /\ last.log = <<>>
    /\ last.error = 1

\* The 2000 ms timer has fired and the load event is past.
AllFired ==
    /\ phase = "run"
    /\ readyState = "complete"
    /\ \A i \in Timers : TimerDelays[i] = 2000 => timer[i] = "fired"

\* C18: no observer is attached without MutationObserver, nor when body is
\* absent at the evaluation and at the poll, and none is attached later.
\* Every pass not run by the observer is run by a one-shot source, each at
\* most once.  Once the 2000 ms timer and the load event are past with no
\* observer attached, no step runs the pass, and no step changes an element
\* of the document: a heading inserted then keeps its text.
C18_BoundedWithoutObserver ==
    [][ /\ ~moAvail => ~observing'
        /\ (IsPollStep /\ ~body) => ~observing'
        /\ (phase = "run" /\ poll # "armed" /\ ~observing) => ~observing'
        /\ last'.src # "none" =>
              \/ last'.src = "observer" /\ observing
              \/ /\ last'.src \in Sources
                 /\ calls'[last'.src] = calls[last'.src] + 1
                 /\ \A s \in Sources \ {last'.src} : calls'[s] = calls[s]
        /\ last'.src = "none" => calls' = calls
        /\ \A s \in Sources : calls'[s] <= 1
        /\ (AllFired /\ ~observing) =>
              /\ last'.src = "none"
              /\ AllFired'
              /\ ~observing'
              /\ Len(doc') >= Len(doc)
              /\ \A i \in 1..Len(doc) : doc'[i] = doc[i]
      ]_vars

\* C18 witness: MutationObserver is available but body was absent at the
\* evaluation and at the poll, so no observer is attached; every one-shot
\* source has run the pass once; a heading inserted after the last pass
\* reads "Query Parameters".
C18_Witness ==
    /\ AllFired
    /\ moAvail
    /\ poll = "fired"
    /\ ~observing
    /\ \A s \in Sources \ {"immediate"} : calls[s] = 1
    /\ \E i \in fresh : ReadsQueryParameters(i) /\ doc[i].own = QueryParameters

====
